---- MODULE Spec2Model ----
(***************************************************************************)
(* godns (src/main.go): a command-line DNS lookup utility.  main checks    *)
(* the argument count, classifies the target as an IP literal or a domain  *)
(* name, prints a header and then either runs lookupPTR alone or walks the *)
(* table lookupFuncs in order, printing one block per record type.         *)
(*                                                                         *)
(* The run is sequential.  Every lookup function is modelled as a frame    *)
(* with its own position (fnPc): it is entered, makes its one call into    *)
(* the system resolver or its one exchange with the upstream server,       *)
(* receives whatever the network answers (the nondeterministic input of    *)
(* the model), and returns.  Spec is a whole run of main; SpecFn applies   *)
(* one lookup function to an arbitrary argument and an arbitrary reply.    *)
(***************************************************************************)
EXTENDS Integers, Sequences, FiniteSets, TLC

VARIABLES
    args,      \* os.Args[1:]
    pc,        \* position of main
    target,    \* main: target
    isIP,      \* main: isIP
    i,         \* main: index of the range loop over lookupFuncs
    stdout,    \* lines written to standard output
    stderr,    \* lines written to standard error
    exitCode,  \* process exit status, NotExited while running
    events,    \* history: lookups begun and ended by main, in order
    results,   \* history: (label, records, err) main received, in order
    fn,        \* lookup function of the current frame
    fnArg,     \* its argument
    fnPc,      \* its position: idle, entry, waiting, returned
    calls,     \* history: calls into the resolver / exchanges with the server
    reply,     \* what the backend answered to the frame's call
    ret        \* (records, err) the frame returned

vars == <<args, pc, target, isIP, i, stdout, stderr, exitCode, events, results,
          fn, fnArg, fnPc, calls, reply, ret>>

mainVars == <<args, pc, target, isIP, i, stdout, stderr, exitCode, events, results>>

-----------------------------------------------------------------------------
(* Bounds of the model *)

MaxArgs == 2      \* command lines of 0..MaxArgs arguments
MaxAddrs == 2     \* SpecFn: addresses in one LookupHost answer
MaxAnswer == 2    \* SpecFn: records in one answer section
MaxRecs == 2      \* SpecFn: records in one MX / NS / TXT / PTR answer

RECURSIVE SeqsUpTo(_, _)
SeqsUpTo(S, n) ==
    IF n = 0 THEN {<<>>}
    ELSE LET shorter == SeqsUpTo(S, n - 1)
         IN  shorter \cup {Append(s, x) : s \in {t \in shorter : Len(t) = n - 1}, x \in S}

-----------------------------------------------------------------------------
(* Values *)

NoErr == "<nil>"            \* Go's nil error
NotExited == 0 - 1           \* no exit status yet
Nil == <<>>                 \* a nil net.IP / nil slice

RcodeSuccess == 0           \* dns.RcodeSuccess
RcodeNameError == 3         \* dns.RcodeNameError (NXDOMAIN)
Upstream == "8.8.8.8:53"

\* The text forms ParseIP is applied to.
V4Text == "93.184.216.34"
V4Text2 == "192.0.2.1"
V6Text == "2606:2800:220:1:248:1893:25c8:1946"
V6Text2 == "2001:db8::1"
MappedText == "::ffff:192.0.2.1"
ZonedText == "fe80::1%eth0"
DomainText == "example.com"
FqdnText == "example.com."

v4InV6Prefix == <<0, 0, 0, 0, 0, 0, 0, 0, 0, 0, 255, 255>>

\* net.ParseIP: the 16-byte form of an IPv4 or IPv6 literal, nil for
\* anything else (a zone suffix is not accepted).
ParseIP(s) ==
    CASE s = V4Text     -> v4InV6Prefix \o <<93, 184, 216, 34>>
      [] s = V4Text2    -> v4InV6Prefix \o <<192, 0, 2, 1>>
      [] s = MappedText -> v4InV6Prefix \o <<192, 0, 2, 1>>
      [] s = V6Text     -> <<38, 6, 40, 0, 2, 32, 0, 1, 2, 72, 24, 147, 37, 200, 25, 70>>
      [] s = V6Text2    -> <<32, 1, 13, 184, 0, 0, 0, 0, 0, 0, 0, 0, 0, 0, 0, 1>>
      [] OTHER          -> Nil

\* net.IP.To4: the 4-byte form when ip is an IPv4 address, else nil.
To4(ip) ==
    IF Len(ip) = 4 THEN ip
    ELSE IF Len(ip) = 16 /\ SubSeq(ip, 1, 12) = v4InV6Prefix THEN SubSeq(ip, 13, 16)
    ELSE Nil

\* net.IP.To16: the 16-byte form, nil when ip has neither length.
To16(ip) ==
    IF Len(ip) = 4 THEN v4InV6Prefix \o ip
    ELSE IF Len(ip) = 16 THEN ip
    ELSE Nil

\* dns.Fqdn: the name with a trailing dot.
Fqdn(s) == IF s = FqdnText THEN s ELSE s \o "."

HexDigit == <<"0", "1", "2", "3", "4", "5", "6", "7",
              "8", "9", "a", "b", "c", "d", "e", "f">>

\* fmt's %x of a string: two lowercase hex digits per byte.
RECURSIVE Hex(_)
Hex(bytes) ==
    IF bytes = <<>> THEN ""
    ELSE HexDigit[(Head(bytes) \div 16) + 1] \o HexDigit[(Head(bytes) % 16) + 1]
         \o Hex(Tail(bytes))

-----------------------------------------------------------------------------
(* The lookup functions.  Each takes its argument and the backend's reply   *)
(* and gives the pair (records, err) the Go function returns.               *)

Result(records, err) == [records |-> records, err |-> err]
Failure(err) == Result(Nil, err)

\* lookupA line 73: the address has an IPv4 form.
KeepA(addr) == To4(ParseIP(addr)) # Nil

\* Mutant of KeepAAAA: the To4() == nil half of the condition is missing.
KeepAAAAMut(addr) == To16(ParseIP(addr)) # Nil

\* lookupAAAA line 87: the address has a 16-byte form and no IPv4 form.
KeepAAAA(addr) == To16(ParseIP(addr)) # Nil /\ To4(ParseIP(addr)) = Nil

\* lookupA lines 71-76: the range loop appending to result.
RECURSIVE FilterA(_, _)
FilterA(addrs, result) ==
    IF addrs = <<>> THEN result
    ELSE FilterA(Tail(addrs),
                 IF KeepA(Head(addrs)) THEN Append(result, Head(addrs)) ELSE result)

\* lookupAAAA lines 85-90.
RECURSIVE FilterAAAA(_, _)
FilterAAAA(addrs, result) ==
    IF addrs = <<>> THEN result
    ELSE FilterAAAA(Tail(addrs),
                    IF KeepAAAA(Head(addrs)) THEN Append(result, Head(addrs)) ELSE result)

lookupA(rp) ==
    IF rp.err # NoErr THEN Failure(rp.err) ELSE Result(FilterA(rp.addrs, Nil), NoErr)

lookupAAAA(rp) ==
    IF rp.err # NoErr THEN Failure(rp.err) ELSE Result(FilterAAAA(rp.addrs, Nil), NoErr)

lookupCNAME(rp) ==
    IF rp.err # NoErr THEN Failure(rp.err) ELSE Result(<<rp.cname>>, NoErr)

FormatMX(mx) == mx.Host \o " (pref " \o ToString(mx.Pref) \o ")"

lookupMX(rp) ==
    IF rp.err # NoErr THEN Failure(rp.err)
    ELSE Result([k \in 1..Len(rp.mxs) |-> FormatMX(rp.mxs[k])], NoErr)

lookupNS(rp) ==
    IF rp.err # NoErr THEN Failure(rp.err)
    ELSE Result([k \in 1..Len(rp.nss) |-> rp.nss[k].Host], NoErr)

lookupTXT(rp) ==
    IF rp.err # NoErr THEN Failure(rp.err) ELSE Result(rp.txts, NoErr)

\* lookupPTR lines 169-173, after the argument passed the check of line 166.
lookupPTR(rp) ==
    IF rp.err # NoErr THEN Failure(rp.err) ELSE Result(rp.names, NoErr)

\* Mutant of PTRInputOK: only IPv4 literals are accepted.
PTRInputOKMut(addr) == To4(ParseIP(addr)) # Nil

\* Mutant of PTRInputOK: the validation is missing.
PTRInputAny(addr) == TRUE

\* lookupPTR line 166: the argument is an IP literal.
PTRInputOK(addr) == ParseIP(addr) # Nil

ErrPTRNeedsIP == "PTR lookup requires an IP address"

\* Mutant of RcodeOK: the response code is not looked at.
RcodeOKMut(rp) == TRUE

\* dnsQuery line 143: the reply's response code is success.
RcodeOK(rp) == rp.Rcode = RcodeSuccess

\* dnsQuery lines 139-146: (resp.Answer, err) from the exchange's reply.
dnsQuery(domain, qtype, rp) ==
    IF rp.err # NoErr THEN [rrs |-> Nil, err |-> rp.err]
    ELSE IF ~RcodeOK(rp)
         THEN [rrs |-> Nil, err |-> "invalid answer for " \o domain \o " type " \o qtype]
    ELSE [rrs |-> rp.Answer, err |-> NoErr]

FormatSOA(rr) ==
    "NS: " \o rr.Ns \o ", Mbox: " \o rr.Mbox \o ", Serial: " \o ToString(rr.Serial)

FormatSRV(rr) ==
    rr.Target \o " " \o ToString(rr.Port) \o " " \o ToString(rr.Priority)
    \o " " \o ToString(rr.Weight)

FormatCERT(rr) ==
    "Type: " \o ToString(rr.Type) \o ", KeyTag: " \o ToString(rr.KeyTag)
    \o ", Algorithm: " \o ToString(rr.Algorithm) \o ", Certificate: " \o Hex(rr.Certificate)

FormatDNAME(rr) == rr.Target

FormatRR(qtype, rr) ==
    CASE qtype = "SOA"   -> FormatSOA(rr)
      [] qtype = "SRV"   -> FormatSRV(rr)
      [] qtype = "CERT"  -> FormatCERT(rr)
      [] qtype = "DNAME" -> FormatDNAME(rr)

\* The type assertion rr.(*dns.SOA) and its siblings: the record's Go type.
IsType(rr, qtype) == rr.rrtype = qtype

\* lookupSOA lines 154-159 and the same loop of lookupSRV, lookupCERT, lookupDNAME.
RECURSIVE CollectRRs(_, _, _)
CollectRRs(qtype, rrs, result) ==
    IF rrs = <<>> THEN result
    ELSE CollectRRs(qtype, Tail(rrs),
                    IF IsType(Head(rrs), qtype)
                    THEN Append(result, FormatRR(qtype, Head(rrs)))
                    ELSE result)

\* lookupSOA, lookupSRV, lookupCERT, lookupDNAME.
lookupDirect(qtype, domain, rp) ==
    LET q == dnsQuery(domain, qtype, rp)
    IN  IF q.err # NoErr THEN Failure(q.err)
        ELSE Result(CollectRRs(qtype, q.rrs, Nil), NoErr)

lookupSOA(domain, rp) == lookupDirect("SOA", domain, rp)
lookupSRV(domain, rp) == lookupDirect("SRV", domain, rp)
lookupCERT(domain, rp) == lookupDirect("CERT", domain, rp)
lookupDNAME(domain, rp) == lookupDirect("DNAME", domain, rp)

\* main lines 35-49: the table, by label.
lookupFuncs == <<"A", "AAAA", "CNAME", "MX", "NS", "TXT", "SOA", "SRV", "CERT", "DNAME">>

DirectTypes == {"SOA", "SRV", "CERT", "DNAME"}
Labels == {lookupFuncs[k] : k \in 1..Len(lookupFuncs)} \cup {"PTR"}

\* The backend each lookup function calls.
Backend(f) ==
    CASE f \in {"A", "AAAA"} -> "LookupHost"
      [] f = "CNAME"         -> "LookupCNAME"
      [] f = "MX"            -> "LookupMX"
      [] f = "NS"            -> "LookupNS"
      [] f = "TXT"           -> "LookupTXT"
      [] f = "PTR"           -> "LookupAddr"
      [] f \in DirectTypes   -> "Exchange"

\* The call as the backend sees it: the system resolver gets the argument,
\* the exchange carries the question (fully-qualified name, type) to the
\* upstream address of dnsQuery line 139.
BackendCall(f, arg) ==
    IF f \in DirectTypes
    THEN [backend |-> "Exchange", name |-> Fqdn(arg), qtype |-> f, server |-> Upstream]
    ELSE [backend |-> Backend(f), name |-> arg, qtype |-> "", server |-> "system"]

\* What the function returns once its backend call was answered with rp.
Return(f, arg, rp) ==
    CASE f = "A"     -> lookupA(rp)
      [] f = "AAAA"  -> lookupAAAA(rp)
      [] f = "CNAME" -> lookupCNAME(rp)
      [] f = "MX"    -> lookupMX(rp)
      [] f = "NS"    -> lookupNS(rp)
      [] f = "TXT"   -> lookupTXT(rp)
      [] f = "PTR"   -> lookupPTR(rp)
      [] f = "SOA"   -> lookupSOA(arg, rp)
      [] f = "SRV"   -> lookupSRV(arg, rp)
      [] f = "CERT"  -> lookupCERT(arg, rp)
      [] f = "DNAME" -> lookupDNAME(arg, rp)

-----------------------------------------------------------------------------
(* What the network may answer.  RunReplies is used by whole runs of main   *)
(* (a failure, an answer that gives no record, one that gives some);        *)
(* FnReplies by the lookup functions on their own (every answer up to the   *)
(* bounds).                                                                 *)

ErrNoHost == "lookup example.com: no such host"
ErrTimeout == "read udp 8.8.8.8:53: i/o timeout"

MX1 == [Host |-> "mail.example.com.", Pref |-> 10]
MX2 == [Host |-> "backup.example.com.", Pref |-> 20]
NS1 == [Host |-> "ns1.example.com."]
NS2 == [Host |-> "ns2.example.com."]
TXT1 == "v=spf1 -all"
TXT2 == "hello world"
Name1 == "one.example.com."
Name2 == "two.example.com."

SOA1 == [rrtype |-> "SOA", Ns |-> "ns1.example.com.", Mbox |-> "admin.example.com.",
         Serial |-> 2024010100]
SOA2 == [rrtype |-> "SOA", Ns |-> "ns2.example.com.", Mbox |-> "root.example.com.",
         Serial |-> 7]
SRV1 == [rrtype |-> "SRV", Target |-> "sip.example.com.", Port |-> 5060,
         Priority |-> 10, Weight |-> 60]
CERT1 == [rrtype |-> "CERT", Type |-> 1, KeyTag |-> 12345, Algorithm |-> 8,
          Certificate |-> <<65, 81, 61>>]
DNAME1 == [rrtype |-> "DNAME", Target |-> "example.net."]
CNAMERR == [rrtype |-> "CNAME", Target |-> "www.example.com."]

RRs == {SOA1, SOA2, SRV1, CERT1, DNAME1, CNAMERR}

\* A record of the queried type, for runs of main.
MatchRR(qtype) ==
    CASE qtype = "SOA" -> SOA1 [] qtype = "SRV" -> SRV1
      [] qtype = "CERT" -> CERT1 [] qtype = "DNAME" -> DNAME1

Addrs == {V4Text, V6Text, MappedText, ZonedText}

OK(field, value) == [err |-> NoErr] @@ (field :> value)

ExchangeOK(rcode, answer) == [err |-> NoErr, Rcode |-> rcode, Answer |-> answer]

RunReplies(f) ==
    CASE Backend(f) = "LookupHost" ->
            {[err |-> ErrNoHost], OK("addrs", <<V4Text, V6Text>>), OK("addrs", <<V6Text>>),
             OK("addrs", <<V4Text>>)}
      [] Backend(f) = "LookupCNAME" -> {[err |-> ErrNoHost], OK("cname", FqdnText)}
      [] Backend(f) = "LookupMX" ->
            {[err |-> ErrNoHost], OK("mxs", <<>>), OK("mxs", <<MX1, MX2>>)}
      [] Backend(f) = "LookupNS" ->
            {[err |-> ErrNoHost], OK("nss", <<>>), OK("nss", <<NS1, NS2>>)}
      [] Backend(f) = "LookupTXT" ->
            {[err |-> ErrNoHost], OK("txts", <<>>), OK("txts", <<TXT1>>)}
      [] Backend(f) = "LookupAddr" ->
            {[err |-> ErrNoHost], OK("names", <<>>), OK("names", <<Name1, Name2>>)}
      [] Backend(f) = "Exchange" ->
            {[err |-> ErrTimeout],
             IF f = "SOA" THEN ExchangeOK(RcodeNameError, <<MatchRR(f)>>)
                          ELSE ExchangeOK(RcodeSuccess, <<>>),
             ExchangeOK(RcodeSuccess, <<CNAMERR, MatchRR(f)>>)}

FnReplies(f) ==
    CASE Backend(f) = "LookupHost" ->
            {[err |-> ErrNoHost]} \cup {OK("addrs", a) : a \in SeqsUpTo(Addrs, MaxAddrs)}
      [] Backend(f) = "LookupCNAME" -> {[err |-> ErrNoHost], OK("cname", FqdnText)}
      [] Backend(f) = "LookupMX" ->
            {[err |-> ErrNoHost]} \cup {OK("mxs", a) : a \in SeqsUpTo({MX1, MX2}, MaxRecs)}
      [] Backend(f) = "LookupNS" ->
            {[err |-> ErrNoHost]} \cup {OK("nss", a) : a \in SeqsUpTo({NS1, NS2}, MaxRecs)}
      [] Backend(f) = "LookupTXT" ->
            {[err |-> ErrNoHost]} \cup {OK("txts", a) : a \in SeqsUpTo({TXT1, TXT2}, MaxRecs)}
      [] Backend(f) = "LookupAddr" ->
            {[err |-> ErrNoHost]} \cup {OK("names", a) : a \in SeqsUpTo({Name1, Name2}, MaxRecs)}
      [] Backend(f) = "Exchange" ->
            {[err |-> ErrTimeout]}
            \cup {ExchangeOK(rc, a) : rc \in {RcodeSuccess, RcodeNameError},
                                      a \in SeqsUpTo(RRs, MaxAnswer)}

NoReply == [err |-> "no reply"]
NoResult == Result(Nil, "no result")

-----------------------------------------------------------------------------
(* The frame of a lookup function *)

\* Mutant of AfterReply: a failed call is made again.
AfterReplyMut(rp) == IF rp.err # NoErr THEN "entry" ELSE "returned"

\* dnsQuery lines 140-142 and the err checks of the resolver-backed
\* functions: the function returns after the one reply, whatever it is.
AfterReply(rp) == "returned"

\* Entry of the function: lookupPTR validates its argument first (lines
\* 166-168) and returns without calling the resolver; every other function,
\* and lookupPTR on an IP literal, makes its backend call.
LookupEntry ==
    /\ fnPc = "entry"
    /\ IF fn = "PTR" /\ ~PTRInputOK(fnArg)
       THEN /\ ret' = Failure(ErrPTRNeedsIP)
            /\ fnPc' = "returned"
            /\ UNCHANGED calls
       ELSE /\ calls' = Append(calls, BackendCall(fn, fnArg))
            /\ fnPc' = "waiting"
            /\ UNCHANGED ret
    /\ UNCHANGED <<mainVars, fn, fnArg, reply>>

\* The answers the backend may give: every one up to the bounds when a
\* function is applied on its own, the run's few otherwise.
Replies(f) == IF pc = "fn" THEN FnReplies(f) ELSE RunReplies(f)

\* The backend answers and the function computes what it returns.
BackendReturn ==
    /\ fnPc = "waiting"
    /\ \E rp \in Replies(fn) :
          /\ reply' = rp
          /\ ret' = Return(fn, fnArg, rp)
          /\ fnPc' = AfterReply(rp)
    /\ UNCHANGED <<mainVars, fn, fnArg, calls>>

-----------------------------------------------------------------------------
(* main *)

UsageMsg == "Usage: godns <domain|ip>"

RunStrings == {DomainText, V4Text2, V6Text2}

\* Mutant of ArgsOK: the check is len(os.Args) < 2.
ArgsOKMut == Len(args) >= 1

\* line 12: len(os.Args) == 2, the program name and one argument.
ArgsOK == Len(args) = 1

\* line 17: isIP := net.ParseIP(target) != nil
ClassifyIP(t) == ParseIP(t) # Nil

\* Mutant of ExitStatus: a failed lookup makes the run exit non-zero.
ExitStatusMut == IF \E k \in 1..Len(results) : results[k].err # NoErr THEN 1 ELSE 0

\* lines 32, 64: returning from main ends the process with status 0.
ExitStatus == 0

\* Mutant of Present: the label line is printed for an empty result too.
PresentMut(label, r) ==
    IF r.err # NoErr THEN <<label \o ": error: " \o r.err>>
    ELSE <<label \o ":">> \o [k \in 1..Len(r.records) |-> "  " \o r.records[k]]

\* lines 53-62: the block printed for one table entry.
Present(label, r) ==
    IF r.err # NoErr THEN <<label \o ": error: " \o r.err>>
    ELSE IF Len(r.records) > 0
         THEN <<label \o ":">> \o [k \in 1..Len(r.records) |-> "  " \o r.records[k]]
    ELSE <<>>

\* lines 24-31: the block printed on the IP path.
PresentPTR(r) ==
    IF r.err # NoErr THEN <<"PTR: error: " \o r.err>>
    ELSE IF Len(r.records) > 0
         THEN <<"PTR:">> \o [k \in 1..Len(r.records) |-> "  " \o r.records[k]]
    ELSE <<>>

\* Mutant of AfterPTR: the return is missing and main falls into the table loop.
AfterPTRMut == "loop"

\* line 32: return after the PTR block.
AfterPTR == "return"

\* Mutant of AfterError: break instead of continue.
AfterErrorMut == "return"

\* line 55: continue after an error line.
AfterError == "loop"

Init ==
    /\ args \in SeqsUpTo(RunStrings, MaxArgs)
    /\ pc = "start"
    /\ target = ""
    /\ isIP = FALSE
    /\ i = 0
    /\ stdout = <<>>
    /\ stderr = <<>>
    /\ exitCode = NotExited
    /\ events = <<>>
    /\ results = <<>>
    /\ fn = "none"
    /\ fnArg = ""
    /\ fnPc = "idle"
    /\ calls = <<>>
    /\ reply = NoReply
    /\ ret = NoResult

frameVars == <<fn, fnArg, fnPc, calls, reply, ret>>

\* lines 12-15
UsageExit ==
    /\ pc = "start"
    /\ ~ArgsOK
    /\ stderr' = Append(stderr, UsageMsg)
    /\ exitCode' = 1
    /\ pc' = "exited"
    /\ UNCHANGED <<args, target, isIP, i, stdout, events, results, frameVars>>

\* lines 16-21, 51
Classify ==
    /\ pc = "start"
    /\ ArgsOK
    /\ target' = args[1]
    /\ isIP' = ClassifyIP(args[1])
    /\ stdout' = stdout \o <<"DNS records for " \o args[1] \o ":", "">>
    /\ pc' = IF isIP' THEN "ptr" ELSE "loop"
    /\ i' = 1
    /\ UNCHANGED <<args, stderr, exitCode, events, results, frameVars>>

\* line 23: call lookupPTR(target)
InvokePTR ==
    /\ pc = "ptr"
    /\ fn' = "PTR"
    /\ fnArg' = target
    /\ fnPc' = "entry"
    /\ events' = Append(events, <<"begin", "PTR">>)
    /\ pc' = "ptrcall"
    /\ UNCHANGED <<args, target, isIP, i, stdout, stderr, exitCode, results,
                   calls, reply, ret>>

\* lines 23-32: lookupPTR has returned; print and return
PrintPTR ==
    /\ pc = "ptrcall"
    /\ fnPc = "returned"
    /\ stdout' = stdout \o PresentPTR(ret)
    /\ events' = Append(events, <<"end", "PTR">>)
    /\ results' = Append(results, [label |-> "PTR", records |-> ret.records, err |-> ret.err])
    /\ fnPc' = "idle"
    /\ reply' = NoReply
    /\ ret' = NoResult
    /\ pc' = AfterPTR
    /\ UNCHANGED <<args, target, isIP, i, stderr, exitCode, fn, fnArg, calls>>

\* lines 51-52: the next table entry's lookup is called
InvokeLookup ==
    /\ pc = "loop"
    /\ i <= Len(lookupFuncs)
    /\ fn' = lookupFuncs[i]
    /\ fnArg' = target
    /\ fnPc' = "entry"
    /\ events' = Append(events, <<"begin", lookupFuncs[i]>>)
    /\ pc' = "call"
    /\ UNCHANGED <<args, target, isIP, i, stdout, stderr, exitCode, results,
                   calls, reply, ret>>

\* lines 52-62: the lookup has returned; print its block, go to the next entry
PrintLookup ==
    /\ pc = "call"
    /\ fnPc = "returned"
    /\ stdout' = stdout \o Present(lookupFuncs[i], ret)
    /\ events' = Append(events, <<"end", lookupFuncs[i]>>)
    /\ results' = Append(results, [label |-> lookupFuncs[i], records |-> ret.records,
                                   err |-> ret.err])
    /\ fnPc' = "idle"
    /\ reply' = NoReply
    /\ ret' = NoResult
    /\ i' = i + 1
    /\ pc' = IF ret.err # NoErr THEN AfterError ELSE "loop"
    /\ UNCHANGED <<args, target, isIP, stderr, exitCode, fn, fnArg, calls>>

\* line 63: the range loop is exhausted
LoopEnd ==
    /\ pc = "loop"
    /\ i > Len(lookupFuncs)
    /\ pc' = "return"
    /\ UNCHANGED <<args, target, isIP, i, stdout, stderr, exitCode, events, results,
                   frameVars>>

\* lines 32, 64: main returns, the process exits with status 0
MainReturn ==
    /\ pc = "return"
    /\ exitCode' = ExitStatus
    /\ pc' = "exited"
    /\ UNCHANGED <<args, target, isIP, i, stdout, stderr, events, results, frameVars>>

Next ==
    \/ UsageExit
    \/ Classify
    \/ InvokePTR
    \/ PrintPTR
    \/ InvokeLookup
    \/ PrintLookup
    \/ LoopEnd
    \/ MainReturn
    \/ LookupEntry
    \/ BackendReturn

Spec == Init /\ [][Next]_vars

\* Every call returns: the resolver and the DNS client give up after their
\* own timeouts, and main's steps are straight-line code.
FairSpec == Spec /\ WF_vars(Next)

-----------------------------------------------------------------------------
(* One lookup function applied to any argument and any reply *)

FnStrings == {DomainText, FqdnText, V4Text2, V6Text2, MappedText, ZonedText}

InitFn ==
    /\ args = <<>>
    /\ pc = "fn"
    /\ target = ""
    /\ isIP = FALSE
    /\ i = 0
    /\ stdout = <<>>
    /\ stderr = <<>>
    /\ exitCode = NotExited
    /\ events = <<>>
    /\ results = <<>>
    /\ fn \in Labels
    /\ fnArg \in FnStrings
    /\ fnPc = "entry"
    /\ calls = <<>>
    /\ reply = NoReply
    /\ ret = NoResult

NextFn ==
    \/ LookupEntry
    \/ BackendReturn

SpecFn == InitFn /\ [][NextFn]_vars

-----------------------------------------------------------------------------
(* Properties *)

Range(seq) == {seq[k] : k \in 1..Len(seq)}

IsPrefix(a, b) == Len(a) <= Len(b) /\ a = SubSeq(b, 1, Len(a))

\* begin and end of each label of a list, one lookup after the other.
RECURSIVE EventsOf(_)
EventsOf(labels) ==
    IF labels = <<>> THEN <<>>
    ELSE <<<<"begin", Head(labels)>>, <<"end", Head(labels)>>>> \o EventsOf(Tail(labels))

TableOrder == <<"A", "AAAA", "CNAME", "MX", "NS", "TXT", "SOA", "SRV", "CERT", "DNAME">>

OneArg == Len(args) = 1
DomainRun == OneArg /\ ParseIP(args[1]) = Nil
IPRun == OneArg /\ ParseIP(args[1]) # Nil
Exited == pc = "exited"
InLookup == fnPc # "idle"

\* C1: on a target that is not an IP literal main attempts A, AAAA, CNAME,
\* MX, NS, TXT, SOA, SRV, CERT, DNAME, each once, in that order, each ended
\* before the next begins, and all ten whatever each of them returned.
C1_TableInOrder ==
    DomainRun =>
        /\ IsPrefix(events, EventsOf(TableOrder))
        /\ InLookup <=> (Len(events) % 2 = 1)
        /\ Exited => events = EventsOf(TableOrder)
        /\ \A k \in 1..Len(results) : results[k].label = TableOrder[k]

\* C1 witness: the run ended, MX failed and NS was attempted after it.
C1_Witness ==
    /\ DomainRun /\ Exited
    /\ Len(results) = 10
    /\ results[4].err # NoErr
    /\ results[5].err = NoErr /\ results[5].records # <<>>

\* C2: on an IP literal main calls lookupPTR once and none of the ten table
\* lookups, whatever the PTR lookup returns.
C2_OnlyPTR ==
    IPRun =>
        /\ IsPrefix(events, EventsOf(<<"PTR">>))
        /\ Exited => events = EventsOf(<<"PTR">>)
        /\ \A k \in 1..Len(calls) : calls[k].backend = "LookupAddr"
        /\ \A k \in 1..Len(results) : results[k].label = "PTR"
        /\ fn \in {"none", "PTR"}

\* C2 witness: an IP run that ended after its PTR lookup failed.
C2_Witness ==
    /\ IPRun /\ Exited
    /\ Len(results) = 1 /\ results[1].err # NoErr

\* C3: with zero or several arguments the program prints the usage message
\* to standard error, exits with status 1, performs no lookup and writes
\* nothing to standard output.
C3_Usage ==
    ~OneArg =>
        /\ stdout = <<>>
        /\ events = <<>> /\ calls = <<>> /\ results = <<>>
        /\ fnPc = "idle"
        /\ pc \in {"start", "exited"}
        /\ Exited => exitCode = 1 /\ stderr = <<"Usage: godns <domain|ip>">>
        /\ ~Exited => exitCode = NotExited /\ stderr = <<>>

\* C3 witness: a command line of two arguments has been turned down.
C3_Witness == Len(args) = 2 /\ Exited /\ exitCode = 1

AllApplicableDone ==
    events = IF ParseIP(args[1]) # Nil THEN EventsOf(<<"PTR">>) ELSE EventsOf(TableOrder)

\* C4: with exactly one argument the program always terminates, with exit
\* status 0 and after all applicable lookups have completed, whatever the
\* lookups returned.
C4_ExitZero ==
    /\ [](OneArg /\ Exited => exitCode = 0 /\ AllApplicableDone /\ ~InLookup)
    /\ [](OneArg /\ ~Exited => exitCode = NotExited)
    /\ (OneArg ~> Exited)

\* C4 witness: a run in which every one of the ten lookups failed ended with status 0.
C4_Witness ==
    /\ DomainRun /\ Exited /\ exitCode = 0
    /\ Len(results) = 10
    /\ \A k \in 1..10 : results[k].err # NoErr

\* The block of one result, as the format of the output is stated.
Block(r) ==
    CASE r.err # NoErr -> <<r.label \o ": error: " \o r.err>>
      [] r.err = NoErr /\ r.records # <<>> ->
            <<r.label \o ":">> \o [k \in 1..Len(r.records) |-> "  " \o r.records[k]]
      [] OTHER -> <<>>

RECURSIVE Blocks(_)
Blocks(rs) == IF rs = <<>> THEN <<>> ELSE Block(Head(rs)) \o Blocks(Tail(rs))

\* C5: after the header, standard output is the concatenation, in attempt
\* order, of one block per attempted record type: one error line, or the
\* label line and the indented results in the order returned, or nothing.
C5_Output ==
    (OneArg /\ pc # "start") =>
        stdout = <<"DNS records for " \o args[1] \o ":", "">> \o Blocks(results)

\* C5 witness: a finished run with an error block, a result block and an empty result.
C5_Witness ==
    /\ DomainRun /\ Exited
    /\ \E k \in 1..Len(results) : results[k].err # NoErr
    /\ \E k \in 1..Len(results) : results[k].err = NoErr /\ Len(results[k].records) = 2
    /\ \E k \in 1..Len(results) : results[k].err = NoErr /\ results[k].records = <<>>

\* C6: on an argument that is not an IP literal lookupPTR returns the
\* validation error and no records, without calling the resolver.
C6_PTRValidation ==
    (fn = "PTR" /\ ParseIP(fnArg) = Nil) =>
        /\ calls = <<>>
        /\ reply = NoReply
        /\ fnPc \in {"entry", "returned"}
        /\ fnPc = "returned" =>
              ret = [records |-> <<>>, err |-> "PTR lookup requires an IP address"]

\* C6 witness: lookupPTR has returned on a domain name.
C6_Witness == fn = "PTR" /\ fnArg = DomainText /\ fnPc = "returned"

\* An address with an IPv4 form / with a 16-byte form, as net.IP tells.
IPv4Formatted(a) == ParseIP(a) # Nil /\ To4(ParseIP(a)) # Nil
IPv6Formatted(a) == ParseIP(a) # Nil /\ To16(ParseIP(a)) # Nil
IsA(a) == IPv4Formatted(a)
IsAAAA(a) == IPv6Formatted(a) /\ ~IPv4Formatted(a)

C8_DirectQuery ==
    (fn \in DirectTypes /\ fnPc = "returned") =>
        IF reply.err # NoErr THEN ret = [records |-> <<>>, err |-> reply.err]
        ELSE IF reply.Rcode # 0 THEN ret.err # NoErr /\ ret.records = <<>>
        ELSE LET OfType(rr) == rr.rrtype = fn
                 matching == SelectSeq(reply.Answer, OfType)
             IN  /\ ret.err = NoErr
                 /\ Len(ret.records) = Len(matching)
                 /\ \A k \in 1..Len(matching) : ret.records[k] = FormatRR(fn, matching[k])

\* C8 witness: a reply whose code is not success and whose answer section
\* holds a record of the queried type made lookupSOA return an error.
C8_Witness ==
    /\ fn = "SOA" /\ fnPc = "returned"
    /\ reply.err = NoErr /\ reply.Rcode # 0 /\ SOA1 \in Range(reply.Answer)
    /\ ret.err # NoErr

SystemBackend(label) ==
    CASE label \in {"A", "AAAA"} -> "LookupHost"
      [] label = "CNAME" -> "LookupCNAME"
      [] label = "MX" -> "LookupMX"
      [] label = "NS" -> "LookupNS"
      [] label = "TXT" -> "LookupTXT"
      [] label = "PTR" -> "LookupAddr"
      [] OTHER -> "Exchange"

Begun == SelectSeq(events, LAMBDA e : e[1] = "begin")

\* C9: each attempted lookup makes exactly one backend call (the system
\* resolver for A, AAAA, CNAME, MX, NS, TXT, PTR, one exchange with
\* 8.8.8.8:53 for SOA, SRV, CERT, DNAME), a failed call is not repeated; a
\* domain run makes ten calls and an IP run one.
C9_OneCallEach ==
    LET made == Len(Begun) - (IF fnPc = "entry" THEN 1 ELSE 0)
    IN  /\ Len(calls) = made
        /\ \A k \in 1..Len(calls) :
              /\ calls[k].backend = SystemBackend(Begun[k][2])
              /\ calls[k].server = IF Begun[k][2] \in {"SOA", "SRV", "CERT", "DNAME"}
                                   THEN "8.8.8.8:53" ELSE "system"
        /\ (DomainRun /\ Exited) => Len(calls) = 10
        /\ (IPRun /\ Exited) => Len(calls) = 1

\* C9 witness: a domain run ended with ten calls made, the first of them failed.
C9_Witness ==
    /\ DomainRun /\ Exited /\ Len(calls) = 10
    /\ results[1].err # NoErr /\ results[7].err # NoErr

\* C10: no run produces the PTR validation error (lookupPTR is reached only
\* with a target that passed the same parse), and the classification of the
\* target is computed once and does not change.
C10_NoValidationError ==
    /\ [](/\ ret.err # "PTR lookup requires an IP address"
          /\ \A k \in 1..Len(results) : results[k].err # "PTR lookup requires an IP address"
          /\ "PTR: error: PTR lookup requires an IP address" \notin Range(stdout)
          /\ fn = "PTR" => ParseIP(fnArg) # Nil
          /\ (OneArg /\ pc # "start") => isIP = (ParseIP(args[1]) # Nil))
    /\ [][pc # "start" => (isIP' = isIP /\ target' = target)]_vars

\* C10 witness: an IP run printed a PTR error line, carrying the resolver's error.
C10_Witness ==
    /\ IPRun /\ Exited
    /\ stdout[Len(stdout)] = "PTR: error: " \o ErrNoHost

====
